---- MODULE Spec2Model ----
(***************************************************************************)
(* Model of run.py: the module-level workspace provisioning, the two       *)
(* pre-flight verifications, the download reconciliation, the job loop of  *)
(* main() with its two exception handlers, and the upload reconciliation.  *)
(*                                                                         *)
(* Text is modelled as sequences of one-character strings so that strip(), *)
(* lower() and replace("/", "") are computed, not assumed.                 *)
(***************************************************************************)
EXTENDS Integers, Sequences, FiniteSets, TLC

\* Largest number of config files given on the command line.
MaxJobs == 3

VARIABLES
    pc,              \* position of the process in run.py
    dirs,            \* directories that exist on the local filesystem
    PROJECT,         \* the module global PROJECT (line 48)
    is_main_process, \* accelerator.is_main_process
    recover,         \* args.recover
    config_file_list,\* args.config_file_list
    idx,             \* position of the for loop in config_file_list
    job,             \* the local variable job of main(): 0 is unbound
    jobs_completed,
    jobs_failed,
    e,               \* the exception bound by the active except clause
    raised,          \* the exception that left the process uncaught
    calls,           \* history of the calls made to the collaborators
    out,             \* lines written by print and print_acc
    main_exit,       \* how main() ended: "none", "returned", "raised"
    exit             \* how the process ended: "running", "exit0", "exit1", "raised"

vars == <<pc, dirs, PROJECT, is_main_process, recover, config_file_list, idx,
          job, jobs_completed, jobs_failed, e, raised, calls, out, main_exit, exit>>

prelude_vars == <<is_main_process, recover, config_file_list, idx, job,
                  jobs_completed, jobs_failed, e, main_exit>>
loop_vars == <<dirs, PROJECT, is_main_process, recover, config_file_list>>

----------------------------------------------------------------------------
\* Text helpers.

Whitespace == {" "}

RECURSIVE lstrip(_)
lstrip(s) == IF s # <<>> /\ Head(s) \in Whitespace THEN lstrip(Tail(s)) ELSE s

RECURSIVE rstrip(_)
rstrip(s) ==
    IF s # <<>> /\ s[Len(s)] \in Whitespace
    THEN rstrip(SubSeq(s, 1, Len(s) - 1))
    ELSE s

\* str.strip()
strip(s) == rstrip(lstrip(s))

lower_char(c) ==
    CASE c = "Y" -> "y"
      [] c = "E" -> "e"
      [] c = "S" -> "s"
      [] c = "N" -> "n"
      [] c = "O" -> "o"
      [] OTHER -> c

\* str.lower()
lower(s) == [k \in 1..Len(s) |-> lower_char(s[k])]

IsSlash(c) == c = "/"
NotSlash(c) == ~IsSlash(c)

\* folder.replace("/", "")
replace_slash(s) == SelectSeq(s, NotSlash)

----------------------------------------------------------------------------
\* Values.

NoError == [kind |-> "none", job |-> 0, stage |-> "none"]
Error(kind, j, stage) == [kind |-> kind, job |-> j, stage |-> stage]

\* What get_job, run() and cleanup() may do: return, or raise an error
\* caught by "except Exception" or by "except KeyboardInterrupt".
JobRaises == {"Exception", "KeyboardInterrupt"}
\* What on_error may do: return, or raise an error caught by the inner
\* "except Exception".
HookRaises == {"Exception"}

NoLocation == [store |-> "none", path |-> <<>>]
Remote(bucket, path) == [store |-> bucket, path |-> path]
Local(path) == [store |-> "local", path |-> path]

Call(op, j, res, err) ==
    [op |-> op, job |-> j, proc |-> 0, res |-> res, err |-> err,
     src |-> NoLocation, dst |-> NoLocation, listing |-> {}]
SyncCall(source, destination, res) ==
    [op |-> "sync", job |-> 0, proc |-> 0, res |-> res, err |-> NoError,
     src |-> source, dst |-> destination, listing |-> {}]

Line(kind, n, noun, err) ==
    [kind |-> kind, n |-> n, noun |-> noun, err |-> err,
     bucket |-> "", folder |-> <<>>, found |-> {}]
Text(kind) == Line(kind, 0, "", NoError)
Report(kind, err) == Line(kind, 0, "", err)
Message(kind, bucket, folder, found) ==
    [kind |-> kind, n |-> 0, noun |-> "", err |-> NoError,
     bucket |-> bucket, folder |-> folder, found |-> found]

\* print and print_acc append one line to the output.
print_acc(o, line) == Append(o, line)

----------------------------------------------------------------------------
\* Lines 25-27: the three workspace paths.
WORKSPACE_PATH == <<"w", "/">>
IMAGES_PATH == WORKSPACE_PATH \o <<"i", "/">>
OUTPUTS_PATH == WORKSPACE_PATH \o <<"o", "/">>
WorkspaceDirs == {WORKSPACE_PATH, IMAGES_PATH, OUTPUTS_PATH}

\* Path.exists()
exists(d, path) == path \in d

\* The ancestors of a path among the modelled directories.
parents(path) == {p \in WorkspaceDirs :
                    Len(p) < Len(path) /\ SubSeq(path, 1, Len(p)) = p}

\* Path.mkdir(parents=True, exist_ok=True)
mkdir(d, path) == d \cup parents(path) \cup {path}

\* Replies the operator may type at the prompt of line 37.
Responses == { <<"y">>, <<"Y", "E", "S", " ">>, <<" ", "y", "e", "s">>,
               <<"n", "o">>, <<"y", "e">>, <<>> }
Yes == { <<"y", "e", "s">>, <<"y">> }

\* Names typed at the prompt of line 48.
Projects == { <<"a">>, <<"g">> }

\* Results of bucket.ls(recursive=False): the folder of every top-level
\* entry, a folder name ending in "/" or None for a file at the root.
None == <<"None">>
Listings == { {},
              { <<"a", "/">>, <<"b", "/">> },
              { <<"g", "/">>, None } }

----------------------------------------------------------------------------
Init ==
    /\ pc = "provision"
    /\ dirs \in {d \in SUBSET WorkspaceDirs : \A p \in d : parents(p) \subseteq d}
    /\ PROJECT = <<>>
    /\ is_main_process \in BOOLEAN
    /\ recover \in BOOLEAN
    /\ config_file_list \in {[k \in 1..n |-> k] : n \in 1..MaxJobs}
    /\ idx = 0
    /\ job = 0
    /\ jobs_completed = 0
    /\ jobs_failed = 0
    /\ e = NoError
    /\ raised = NoError
    /\ calls = <<>>
    /\ out = <<>>
    /\ main_exit = "none"
    /\ exit = "running"

\* Lines 28-46 with the mkdir of line 42 missing.
provision_forgets_outputs(d, input) ==
    IF ~exists(d, WORKSPACE_PATH) \/ ~exists(d, IMAGES_PATH) \/ ~exists(d, OUTPUTS_PATH)
    THEN IF lower(strip(input)) \in Yes
         THEN [res |-> "created",
               dirs |-> mkdir(mkdir(d, WORKSPACE_PATH), IMAGES_PATH),
               lines |-> <<Text("ERROR: Missing directories"),
                           Text("Directories created successfully")>>]
         ELSE [res |-> "exit1",
               dirs |-> d,
               lines |-> <<Text("ERROR: Missing directories"),
                           Text("Aborting: directories not created")>>]
    ELSE [res |-> "ok", dirs |-> d, lines |-> <<>>]

\* Lines 28-46 as a function of the directories that exist and of the reply
\* typed at the prompt, which is read only when a directory is missing.
provision(d, input) ==
    IF ~exists(d, WORKSPACE_PATH) \/ ~exists(d, IMAGES_PATH) \/ ~exists(d, OUTPUTS_PATH)
    THEN LET response == lower(strip(input)) IN
         IF response \in Yes
         THEN [res |-> "created",
               dirs |-> mkdir(mkdir(mkdir(d, WORKSPACE_PATH), IMAGES_PATH),
                              OUTPUTS_PATH),
               lines |-> <<Text("ERROR: Missing directories"),
                           Text("Directories created successfully")>>]
         ELSE [res |-> "exit1",
               dirs |-> d,
               lines |-> <<Text("ERROR: Missing directories"),
                           Text("Aborting: directories not created")>>]
    ELSE [res |-> "ok", dirs |-> d, lines |-> <<>>]

\* Lines 28-46 with the sys.exit(1) of line 46 missing: the run goes on
\* after the operator declined.
Provision_NoExit ==
    /\ pc = "provision"
    /\ exit = "running"
    /\ \E input \in Responses :
         LET r == provision(dirs, input) IN
         /\ dirs' = r.dirs
         /\ out' = out \o r.lines
         /\ pc' = "input_project"
         /\ exit' = exit
    /\ UNCHANGED <<PROJECT, calls, raised>>
    /\ UNCHANGED prelude_vars

\* Lines 28-46: create the workspace directories when one is missing and the
\* operator agrees, exit with status 1 when the operator does not.
Provision ==
    /\ pc = "provision"
    /\ exit = "running"
    /\ \E input \in Responses :
         LET r == provision(dirs, input) IN
         /\ dirs' = r.dirs
         /\ out' = out \o r.lines
         /\ IF r.res = "exit1"
            THEN pc' = "exited" /\ exit' = "exit1"
            ELSE pc' = "input_project" /\ exit' = exit
    /\ UNCHANGED <<PROJECT, calls, raised>>
    /\ UNCHANGED prelude_vars

\* Line 48.
InputProject ==
    /\ pc = "input_project"
    /\ \E name \in Projects : PROJECT' = name
    /\ pc' = "authorize"
    /\ UNCHANGED <<dirs, calls, out, raised, exit>>
    /\ UNCHANGED prelude_vars

\* Lines 50-55: an error of authorize_account is not caught.
Authorize ==
    /\ pc = "authorize"
    /\ \E res \in {"ok", "Exception"} :
         /\ calls' = Append(calls, Call("authorize_account", 0, res, NoError))
         /\ IF res = "ok"
            THEN pc' = "verify_datasets" /\ exit' = exit /\ raised' = raised
            ELSE /\ pc' = "exited"
                 /\ exit' = "raised"
                 /\ raised' = Error(res, 0, "authorize_account")
    /\ UNCHANGED <<dirs, PROJECT, out>>
    /\ UNCHANGED prelude_vars

----------------------------------------------------------------------------
\* Pre-flight verification.

\* Lines 64-67: the set of folder names with every "/" removed.
folder_set(listing) == {replace_slash(folder) : folder \in listing}

\* Lines 59-82.  transport is what get_bucket_by_name and ls do; a None
\* folder makes folder.replace raise AttributeError, which the except
\* clause of line 80 catches like a transport error.  sys.exit(1) of line 77
\* raises SystemExit, which "except Exception" does not catch.
verify_datasets_project_folder_exists(transport, listing) ==
    IF transport # "ok" \/ None \in listing
    THEN [res |-> "Exception",
          lines |-> <<Text("ERROR: Failed to verify project folder in bucket")>>]
    ELSE LET folders == folder_set(listing) IN
         IF PROJECT \notin folders
         THEN [res |-> "not_found",
               lines |-> <<Message("ERROR: Project folder not found",
                                   "hlam-ai-datasets", PROJECT, folders),
                           Message("...Please create a folder",
                                   "hlam-ai-datasets", PROJECT, {})>>]
         ELSE [res |-> "ok",
               lines |-> <<Message("Project folder found",
                                   "hlam-ai-datasets", PROJECT, {})>>]

\* Lines 85-105.  bucket_info is the value of bucket.get_id(); the empty
\* string is falsy.
verify_models_is_accessible(transport, bucket_info) ==
    IF transport # "ok"
    THEN [res |-> "Exception",
          lines |-> <<Text("ERROR: Failed to access hlam-ai-models bucket"),
                      Text("Please ensure:")>>]
    ELSE IF bucket_info = <<>>
    THEN [res |-> "no_info",
          lines |-> <<Message("bucket_info", "hlam-ai-models", bucket_info, {}),
                      Text("ERROR: Unable to access hlam-ai-models bucket info")>>]
    ELSE [res |-> "ok",
          lines |-> <<Message("bucket_info", "hlam-ai-models", bucket_info, {}),
                      Text("hlam-ai-models bucket exists and is accessible")>>]

BucketIds == { <<>>, <<"4", "2">> }

\* The record of one verification of the dataset bucket, with the listing
\* bucket.ls returned when the transport worked.
ListCall(transport, listing, res) ==
    [Call("verify_datasets", 0, res, NoError) EXCEPT
        !.listing = IF transport = "ok" THEN listing ELSE {}]

\* Line 250.
VerifyDatasets ==
    /\ pc = "verify_datasets"
    /\ \E transport \in {"ok", "Exception"}, listing \in Listings :
         LET r == verify_datasets_project_folder_exists(transport, listing) IN
         /\ calls' = Append(calls, ListCall(transport, listing, r.res))
         /\ out' = out \o r.lines
         /\ IF r.res = "ok"
            THEN pc' = "verify_models" /\ exit' = exit
            ELSE pc' = "exited" /\ exit' = "exit1"
    /\ UNCHANGED <<dirs, PROJECT, raised>>
    /\ UNCHANGED prelude_vars

\* Line 251 without the sys.exit(1) of lines 96 and 105: the run goes on
\* whatever the verification found.
VerifyModels_NoExit ==
    /\ pc = "verify_models"
    /\ \E transport \in {"ok", "Exception"}, bucket_info \in BucketIds :
         LET r == verify_models_is_accessible(transport, bucket_info) IN
         /\ calls' = Append(calls, Call("verify_models", 0, r.res, NoError))
         /\ out' = out \o r.lines
         /\ pc' = "sync_download"
         /\ exit' = exit
    /\ UNCHANGED <<dirs, PROJECT, raised>>
    /\ UNCHANGED prelude_vars

\* Line 251 with line 252 missing: main() starts without the download.
VerifyModels_SkipDownload ==
    /\ pc = "verify_models"
    /\ \E transport \in {"ok", "Exception"}, bucket_info \in BucketIds :
         LET r == verify_models_is_accessible(transport, bucket_info) IN
         /\ calls' = Append(calls, Call("verify_models", 0, r.res, NoError))
         /\ out' = out \o r.lines
         /\ IF r.res = "ok"
            THEN pc' = "main" /\ exit' = exit
            ELSE pc' = "exited" /\ exit' = "exit1"
    /\ UNCHANGED <<dirs, PROJECT, raised>>
    /\ UNCHANGED prelude_vars

\* Line 251.
VerifyModels ==
    /\ pc = "verify_models"
    /\ \E transport \in {"ok", "Exception"}, bucket_info \in BucketIds :
         LET r == verify_models_is_accessible(transport, bucket_info) IN
         /\ calls' = Append(calls, Call("verify_models", 0, r.res, NoError))
         /\ out' = out \o r.lines
         /\ IF r.res = "ok"
            THEN pc' = "sync_download" /\ exit' = exit
            ELSE pc' = "exited" /\ exit' = "exit1"
    /\ UNCHANGED <<dirs, PROJECT, raised>>
    /\ UNCHANGED prelude_vars

----------------------------------------------------------------------------
\* Reconciliation.

\* Lines 108-129: one blocking call; an error of sync_folders is not caught.
sync(source, destination, res, next) ==
    /\ calls' = Append(calls, SyncCall(source, destination, res))
    /\ IF res = "ok"
       THEN pc' = next /\ exit' = (IF next = "exited" THEN "exit0" ELSE exit)
                       /\ raised' = raised
       ELSE pc' = "exited" /\ exit' = "raised" /\ raised' = Error(res, 0, "sync")

\* Line 252.
SyncDownload ==
    /\ pc = "sync_download"
    /\ \E res \in {"ok", "Exception"} :
         sync(Remote("hlam-ai-datasets", PROJECT), Local(IMAGES_PATH), res, "main")
    /\ UNCHANGED <<dirs, PROJECT, out>>
    /\ UNCHANGED prelude_vars

\* Line 254: reached only when main() returned.
SyncUpload ==
    /\ pc = "sync_upload"
    /\ \E res \in {"ok", "Exception"} :
         sync(Local(OUTPUTS_PATH), Remote("hlam-ai-models", PROJECT), res, "exited")
    /\ UNCHANGED <<dirs, PROJECT, out>>
    /\ UNCHANGED prelude_vars

----------------------------------------------------------------------------
\* The end-of-run summary.

\* Lines 156-160 with the tests off by one: a line for zero failures, and
\* the singular for every count up to one.
failure_string_off_by_one(failed) ==
    IF failed >= 0
    THEN <<Line("failure", failed,
                IF failed <= 1 THEN "failure" ELSE "failures", NoError)>>
    ELSE <<>>

\* Lines 156-160: the failure string, empty when nothing failed.
failure_string(failed) ==
    IF failed > 0
    THEN <<Line("failure", failed,
                IF failed = 1 THEN "failure" ELSE "failures", NoError)>>
    ELSE <<>>

\* Lines 161-163.
completed_string(completed) ==
    <<Line("completed", completed,
           IF completed = 1 THEN "completed job" ELSE "completed jobs", NoError)>>

\* Lines 153-172: the lines print_end_message writes.
print_end_message(completed, failed) ==
    IF ~is_main_process
    THEN <<>>
    ELSE <<Text(""), Text("========"), Text("Result:")>>
         \o (IF Len(completed_string(completed)) > 0
             THEN completed_string(completed) ELSE <<>>)
         \o (IF Len(failure_string(failed)) > 0
             THEN failure_string(failed) ELSE <<>>)
         \o <<Text("========")>>

----------------------------------------------------------------------------
\* main().

\* Lines 175-221: the counters start at zero and the primary process
\* announces the number of jobs.
MainStart ==
    /\ pc = "main"
    /\ jobs_completed' = 0
    /\ jobs_failed' = 0
    /\ out' = IF is_main_process
              THEN print_acc(out, Line("Running", Len(config_file_list),
                                       IF Len(config_file_list) = 1
                                       THEN "job" ELSE "jobs", NoError))
              ELSE out
    /\ idx' = 1
    /\ pc' = "for"
    /\ UNCHANGED <<job, e, raised, calls, main_exit, exit>>
    /\ UNCHANGED loop_vars

\* The except clause that catches an error of the given kind.
handler(kind) ==
    IF kind = "KeyboardInterrupt" THEN "except_KeyboardInterrupt"
    ELSE "except_Exception"

\* One call of the try block: it returns, or raises an error of a kind the
\* except clauses catch.
try_call(op, j, res, next) ==
    /\ calls' = Append(calls, Call(op, j, res, NoError))
    /\ IF res = "ok"
       THEN pc' = next /\ e' = e
       ELSE pc' = handler(res) /\ e' = Error(res, j, op)

\* Lines 223-225: the next config file is resolved; job is bound only when
\* get_job returns.
GetJob ==
    /\ pc = "for"
    /\ idx <= Len(config_file_list)
    /\ \E res \in {"ok"} \cup JobRaises :
         /\ try_call("get_job", config_file_list[idx], res, "run")
         /\ job' = IF res = "ok" THEN config_file_list[idx] ELSE job
    /\ UNCHANGED <<idx, jobs_completed, jobs_failed, raised, out, main_exit, exit>>
    /\ UNCHANGED loop_vars

\* Line 226.
RunJob ==
    /\ pc = "run"
    /\ \E res \in {"ok"} \cup JobRaises : try_call("run", job, res, "cleanup")
    /\ UNCHANGED <<idx, job, jobs_completed, jobs_failed, raised, out,
                   main_exit, exit>>
    /\ UNCHANGED loop_vars

\* Lines 227-228 without the increment of line 228.
CleanupJob_NoCount ==
    /\ pc = "cleanup"
    /\ \E res \in {"ok"} \cup JobRaises :
         /\ try_call("cleanup", job, res, "for")
         /\ jobs_completed' = jobs_completed
         /\ idx' = IF res = "ok" THEN idx + 1 ELSE idx
    /\ UNCHANGED <<job, jobs_failed, raised, out, main_exit, exit>>
    /\ UNCHANGED loop_vars

\* Lines 227-228 with the increment moved before cleanup(): the job is
\* counted completed also when cleanup() raises.
CleanupJob_CountsFirst ==
    /\ pc = "cleanup"
    /\ \E res \in {"ok"} \cup JobRaises :
         /\ try_call("cleanup", job, res, "for")
         /\ jobs_completed' = jobs_completed + 1
         /\ idx' = IF res = "ok" THEN idx + 1 ELSE idx
    /\ UNCHANGED <<job, jobs_failed, raised, out, main_exit, exit>>
    /\ UNCHANGED loop_vars

\* Lines 227-228: the job counts as completed when cleanup() returned.
CleanupJob ==
    /\ pc = "cleanup"
    /\ \E res \in {"ok"} \cup JobRaises :
         /\ try_call("cleanup", job, res, "for")
         /\ jobs_completed' = IF res = "ok" THEN jobs_completed + 1
                              ELSE jobs_completed
         /\ idx' = IF res = "ok" THEN idx + 1 ELSE idx
    /\ UNCHANGED <<job, jobs_failed, raised, out, main_exit, exit>>
    /\ UNCHANGED loop_vars

\* Lines 229-231.
ExceptException ==
    /\ pc = "except_Exception"
    /\ out' = print_acc(out, Report("Error running job", e))
    /\ jobs_failed' = jobs_failed + 1
    /\ pc' = "on_error_Exception"
    /\ UNCHANGED <<idx, job, jobs_completed, e, raised, calls, main_exit, exit>>
    /\ UNCHANGED loop_vars

\* Line 239 with lines 240-243 missing: no hook is attempted.
ExceptKeyboardInterrupt_NoHook ==
    /\ pc = "except_KeyboardInterrupt"
    /\ pc' = "recover_KeyboardInterrupt"
    /\ UNCHANGED <<idx, job, jobs_completed, jobs_failed, e, raised, calls,
                   out, main_exit, exit>>
    /\ UNCHANGED loop_vars

\* Line 239: the clause binds the interrupt and counts nothing.
ExceptKeyboardInterrupt ==
    /\ pc = "except_KeyboardInterrupt"
    /\ pc' = "on_error_KeyboardInterrupt"
    /\ UNCHANGED <<idx, job, jobs_completed, jobs_failed, e, raised, calls,
                   out, main_exit, exit>>
    /\ UNCHANGED loop_vars

\* Lines 232-235 and 240-243 with the inner clause binding its error to e
\* instead of e2: the error of the hook replaces the error of the job.
on_error_attempt_rebinds(next) ==
    /\ IF job = 0
       THEN /\ calls' = calls
            /\ out' = print_acc(out, Report("Error running on_error",
                                            Error("UnboundLocalError", 0, "on_error")))
            /\ e' = Error("UnboundLocalError", 0, "on_error")
       ELSE \E res \in {"ok"} \cup HookRaises :
              /\ calls' = Append(calls, Call("on_error", job, res, e))
              /\ out' = IF res = "ok" THEN out
                        ELSE print_acc(out, Report("Error running on_error",
                                                   Error(res, job, "on_error")))
              /\ e' = IF res = "ok" THEN e ELSE Error(res, job, "on_error")
    /\ pc' = next

\* Lines 232-235 and 240-243: job.process[0].on_error(e) on whatever the
\* variable job holds.  An unbound job raises UnboundLocalError before any
\* hook is reached; that error and an error of the hook are printed and
\* dropped.
on_error_attempt(next) ==
    /\ IF job = 0
       THEN /\ calls' = calls
            /\ out' = print_acc(out, Report("Error running on_error",
                                            Error("UnboundLocalError", 0, "on_error")))
       ELSE \E res \in {"ok"} \cup HookRaises :
              /\ calls' = Append(calls, Call("on_error", job, res, e))
              /\ out' = IF res = "ok" THEN out
                        ELSE print_acc(out, Report("Error running on_error",
                                                   Error(res, job, "on_error")))
    /\ e' = e
    /\ pc' = next

\* Lines 232-235.
OnErrorException ==
    /\ pc = "on_error_Exception"
    /\ on_error_attempt("recover_Exception")
    /\ UNCHANGED <<idx, job, jobs_completed, jobs_failed, raised, main_exit, exit>>
    /\ UNCHANGED loop_vars

\* Lines 240-243.
OnErrorKeyboardInterrupt ==
    /\ pc = "on_error_KeyboardInterrupt"
    /\ on_error_attempt("recover_KeyboardInterrupt")
    /\ UNCHANGED <<idx, job, jobs_completed, jobs_failed, raised, main_exit, exit>>
    /\ UNCHANGED loop_vars

\* Lines 236-237 and 244-245: without --recover the summary is printed and
\* the error is about to be raised again; with it the loop goes on.
recover_check(next) ==
    IF ~recover
    THEN /\ out' = out \o print_end_message(jobs_completed, jobs_failed)
         /\ pc' = next
         /\ UNCHANGED <<idx, e>>
    ELSE /\ out' = out
         /\ pc' = "for"
         /\ idx' = idx + 1
         /\ e' = NoError

\* Lines 236-237.
RecoverException ==
    /\ pc = "recover_Exception"
    /\ recover_check("raise_Exception")
    /\ UNCHANGED <<job, jobs_completed, jobs_failed, raised, calls, main_exit, exit>>
    /\ UNCHANGED loop_vars

\* Lines 244-245.
RecoverKeyboardInterrupt ==
    /\ pc = "recover_KeyboardInterrupt"
    /\ recover_check("raise_KeyboardInterrupt")
    /\ UNCHANGED <<job, jobs_completed, jobs_failed, raised, calls, main_exit, exit>>
    /\ UNCHANGED loop_vars

\* Lines 238 and 246: raise e leaves main() and, uncaught, the process.
raise_e ==
    /\ raised' = e
    /\ main_exit' = "raised"
    /\ exit' = "raised"
    /\ pc' = "exited"

\* Line 238.
RaiseException ==
    /\ pc = "raise_Exception"
    /\ raise_e
    /\ UNCHANGED <<idx, job, jobs_completed, jobs_failed, e, calls, out>>
    /\ UNCHANGED loop_vars

\* Line 246.
RaiseKeyboardInterrupt ==
    /\ pc = "raise_KeyboardInterrupt"
    /\ raise_e
    /\ UNCHANGED <<idx, job, jobs_completed, jobs_failed, e, calls, out>>
    /\ UNCHANGED loop_vars

\* Lines 223 and 253 with line 254 missing: the process ends when main()
\* returns.
MainReturn_NoUpload ==
    /\ pc = "for"
    /\ idx > Len(config_file_list)
    /\ main_exit' = "returned"
    /\ pc' = "exited"
    /\ exit' = "exit0"
    /\ UNCHANGED <<idx, job, jobs_completed, jobs_failed, e, raised, calls, out>>
    /\ UNCHANGED loop_vars

\* Lines 223 and 253: the list is exhausted and main() returns.
MainReturn ==
    /\ pc = "for"
    /\ idx > Len(config_file_list)
    /\ main_exit' = "returned"
    /\ pc' = "sync_upload"
    /\ UNCHANGED <<idx, job, jobs_completed, jobs_failed, e, raised, calls,
                   out, exit>>
    /\ UNCHANGED loop_vars

----------------------------------------------------------------------------
Next ==
    \/ Provision
    \/ InputProject
    \/ Authorize
    \/ VerifyDatasets
    \/ VerifyModels
    \/ SyncDownload
    \/ MainStart
    \/ GetJob
    \/ RunJob
    \/ CleanupJob
    \/ ExceptException
    \/ ExceptKeyboardInterrupt
    \/ OnErrorException
    \/ OnErrorKeyboardInterrupt
    \/ RecoverException
    \/ RecoverKeyboardInterrupt
    \/ RaiseException
    \/ RaiseKeyboardInterrupt
    \/ MainReturn
    \/ SyncUpload

Spec == Init /\ [][Next]_vars

----------------------------------------------------------------------------
\* Reading the history.

JobOps == {"get_job", "run", "cleanup"}
HandlerEntry == {"except_Exception", "except_KeyboardInterrupt"}
HookPending == {"on_error_Exception", "on_error_KeyboardInterrupt"}
AboutToRaise == {"raise_Exception", "raise_KeyboardInterrupt"}

NumJobs == Len(config_file_list)

\* Positions of the history where a job's resolution, run() or cleanup() raised.
FailingCalls == {k \in 1..Len(calls) : calls[k].op \in JobOps /\ calls[k].res # "ok"}
\* The error such a call raised.
ErrorOf(k) == Error(calls[k].res, calls[k].job, calls[k].op)
FailingJobs == {calls[k].job : k \in FailingCalls}
CompletedJobs == {calls[k].job : k \in {i \in 1..Len(calls) :
                                         calls[i].op = "cleanup" /\ calls[i].res = "ok"}}
Attempted(j) == \E k \in 1..Len(calls) : calls[k].op \in JobOps /\ calls[k].job = j
HookCalls == {k \in 1..Len(calls) : calls[k].op = "on_error"}

IsGetJob(c) == c.op = "get_job"
\* The jobs in the order in which they were resolved.
ResolvedOrder == LET g == SelectSeq(calls, IsGetJob) IN [k \in 1..Len(g) |-> g[k].job]

\* The summaries in the output, each by the position of its "Result:" line.
Summaries == {k \in 1..Len(out) : out[k].kind = "Result:"}
IsCompletedLine(l) == l.kind = "completed"
IsFailureLine(l) == l.kind = "failure"
\* The counts the last summary reports; no failure line reads as 0 failures.
ReportedCompleted == LET c == SelectSeq(out, IsCompletedLine) IN c[Len(c)].n
ReportedFailed ==
    LET f == SelectSeq(out, IsFailureLine) IN IF f = <<>> THEN 0 ELSE f[Len(f)].n

BatchEnded == main_exit # "none"

----------------------------------------------------------------------------
\* C1: with recovery disabled, when exactly one job fails, at position k,
\* the batch ends with every job before k completed (completed = k-1), the
\* job at k counted failed (failed = 1) and no job after k resolved or run.
C1_AbortOnFirstFailure ==
    (~recover /\ BatchEnded /\ Cardinality(FailingJobs) = 1) =>
        \A k \in FailingJobs :
            /\ \A j \in 1..(k - 1) : j \in CompletedJobs
            /\ jobs_completed = k - 1
            /\ jobs_failed = 1
            /\ \A j \in (k + 1)..NumJobs : ~Attempted(j)

\* C2: with recovery enabled, when the loop has ended every job was
\* attempted, in submission order, failed equals the number of failing jobs
\* and completed equals the number of the other jobs.
C2_RecoverAttemptsAll ==
    (recover /\ BatchEnded) =>
        /\ ResolvedOrder = config_file_list
        /\ jobs_failed = Cardinality(FailingJobs)
        /\ jobs_completed = NumJobs - Cardinality(FailingJobs)

\* C3: when the loop has ended and no job raised in resolution, run() or
\* cleanup(), completed is the length of the list and failed is 0, with and
\* without --recover.
C3_AllSucceed ==
    (BatchEnded /\ FailingJobs = {}) =>
        /\ jobs_completed = NumJobs
        /\ jobs_failed = 0

C3_Witness ==
    /\ main_exit = "returned"
    /\ FailingJobs = {}
    /\ NumJobs > 1
    /\ jobs_completed = NumJobs

\* C4: once the except clause that caught it has been entered, every error
\* raised by a resolution, a run() or a cleanup(), a KeyboardInterrupt
\* included, has added exactly one to the failed count.
C4_EveryFailureCounted ==
    (pc \notin HandlerEntry) => jobs_failed = Cardinality(FailingCalls)

\* C5: on_error is never invoked with the error of a failed resolution, on
\* any job.
C5_NoHookForResolutionFailure ==
    \A h \in HookCalls : calls[h].err.stage # "get_job"

\* C6: an error e raised by run() or cleanup() of a job reaches on_error
\* exactly once, on process[0] of that job and nowhere else.
C6_HookOnFailingJob ==
    \A k \in FailingCalls :
        (calls[k].op \in {"run", "cleanup"}
         /\ (k < Len(calls) \/ pc \notin HandlerEntry \cup HookPending)) =>
            LET hooks == {h \in HookCalls : calls[h].err = ErrorOf(k)} IN
            /\ Cardinality(hooks) = 1
            /\ \A h \in hooks : calls[h].job = calls[k].job /\ calls[h].proc = 0

\* C6: for [A, B, C] under --recover with only B failing, in run() or
\* cleanup(): completed = 2, failed = 1 and B.process[0].on_error was called
\* once, with B's error; and the hook property above.
C6_HookAndScenario ==
    /\ C6_HookOnFailingJob
    /\ (recover /\ NumJobs = 3 /\ main_exit = "returned" /\ FailingJobs = {2}
        /\ \A k \in FailingCalls : calls[k].op \in {"run", "cleanup"}) =>
            /\ jobs_completed = 2
            /\ jobs_failed = 1
            /\ \A k \in FailingCalls :
                 {h \in HookCalls : calls[h].job = 2}
                   = {h \in HookCalls : calls[h].err = ErrorOf(k)}
            /\ Cardinality({h \in HookCalls : calls[h].job = 2}) = 1

\* C7: when main() is about to raise a job's error again, or has, the
\* primary process has printed the summary with the current counts, and the
\* failed count it reports includes the job that caused the abort.
C7_SummaryBeforeReraise ==
    ((pc \in AboutToRaise \/ main_exit = "raised") /\ is_main_process) =>
        /\ Cardinality(Summaries) = 1
        /\ ReportedCompleted = jobs_completed
        /\ ReportedFailed = jobs_failed
        /\ ReportedFailed = Cardinality(FailingJobs)

\* C8: when the batch has ended, by exhausting the list or by aborting, the
\* primary process has printed the summary exactly once.
C8_SummaryOnce ==
    (BatchEnded /\ is_main_process) => Cardinality(Summaries) = 1

IsVerified(k) ==
    \E a, b \in 1..k :
        /\ a < b /\ b < k
        /\ calls[a].op = "verify_datasets" /\ calls[a].res = "ok"
        /\ calls[b].op = "verify_models" /\ calls[b].res = "ok"

\* C10: every reconciliation and every resolution or run of a job comes
\* after a successful verification of the dataset folder and of the model
\* bucket; when a verification fails the process has exited with status 1
\* with no reconciliation and no job attempted.
C10_VerifiedBeforeWork ==
    /\ \A k \in 1..Len(calls) :
          calls[k].op \in {"sync"} \cup JobOps => IsVerified(k)
    /\ \A k \in 1..Len(calls) :
          (calls[k].op \in {"verify_datasets", "verify_models"}
           /\ calls[k].res # "ok") =>
              /\ exit = "exit1"
              /\ \A i \in 1..Len(calls) : calls[i].op \notin {"sync"} \cup JobOps

C10_Witness ==
    /\ exit = "exit1"
    /\ \E k \in 1..Len(calls) :
          calls[k].op = "verify_models" /\ calls[k].res # "ok"

----------------------------------------------------------------------------
IsDownload(c) == c.op = "sync" /\ c.dst.store = "local"
IsUpload(c) == c.op = "sync" /\ c.src.store = "local"
Downloads == {k \in 1..Len(calls) : IsDownload(calls[k])}
Uploads == {k \in 1..Len(calls) : IsUpload(calls[k])}
DownloadSucceeded == \E k \in Downloads : calls[k].res = "ok"
ProcessEnded == pc = "exited"

\* C11 as claimed: when the process has ended after a successful download,
\* the upload reconciliation was performed, also when a job failed.
C11_UploadAlways ==
    (ProcessEnded /\ DownloadSucceeded) => Uploads # {}

\* C11 as amended: when the process has ended after a successful download,
\* the upload reconciliation was performed, once and to the model bucket
\* of the project, exactly when main() returned; when main() raised a
\* job's error again no upload was performed.
C11_UploadIffMainReturned ==
    (ProcessEnded /\ DownloadSucceeded) =>
        /\ (main_exit = "returned") <=> (Uploads # {})
        /\ Cardinality(Uploads) <= 1
        /\ \A k \in Uploads :
              /\ calls[k].src = Local(OUTPUTS_PATH)
              /\ calls[k].dst = Remote("hlam-ai-models", PROJECT)
              /\ k = Len(calls)

C11_Witness ==
    /\ ProcessEnded
    /\ DownloadSucceeded
    /\ FailingJobs # {}
    /\ main_exit = "returned"
    /\ Uploads # {}

JobSteps == JobOps \cup {"on_error"}

\* C12: the download reconciliation has returned before the first job is
\* resolved, the upload reconciliation comes after the last step of the last
\* attempted job, when main() has returned, and no reconciliation lies
\* between two job steps.
C12_SyncAtBatchBoundaries ==
    /\ \A k \in 1..Len(calls) :
          calls[k].op \in JobSteps =>
              /\ \E d \in Downloads : d < k /\ calls[d].res = "ok"
              /\ \A u \in Uploads : k < u
    /\ \A k \in 1..Len(calls) :
          calls[k].op = "sync" =>
              \/ /\ IsDownload(calls[k])
                 /\ \A i \in 1..(k - 1) : calls[i].op \notin JobSteps
              \/ /\ IsUpload(calls[k])
                 /\ main_exit = "returned"
                 /\ \A i \in (k + 1)..Len(calls) : calls[i].op \notin JobSteps
    /\ pc \in {"run", "cleanup"} \cup HandlerEntry \cup HookPending => Uploads = {}

C12_Witness ==
    /\ ProcessEnded
    /\ NumJobs > 1
    /\ Cardinality(CompletedJobs \cup FailingJobs) > 1
    /\ Downloads # {}
    /\ Uploads # {}

----------------------------------------------------------------------------
InHandler == HandlerEntry \cup HookPending
                \cup {"recover_Exception", "recover_KeyboardInterrupt"}
Interrupts == {k \in FailingCalls : calls[k].res = "KeyboardInterrupt"}
\* The failing call whose handler is still running, if any.
Handled(k) == pc \notin InHandler \/ \E i \in FailingCalls : i > k

\* The attempt job.process[0].on_error(e) made for the failing call k: the
\* next call is the hook, with the error of k, or job was unbound and the
\* attempt was reported.
HookAttempted(k) ==
    \/ /\ k < Len(calls)
       /\ calls[k + 1].op = "on_error"
       /\ calls[k + 1].err = ErrorOf(k)
       /\ calls[k + 1].proc = 0
       /\ calls[k].op \in {"run", "cleanup"} => calls[k + 1].job = calls[k].job
    \/ /\ calls[k].op = "get_job"
       /\ \A i \in 1..k : ~(calls[i].op = "get_job" /\ calls[i].res = "ok")
       /\ \E l \in 1..Len(out) : out[l].err.kind = "UnboundLocalError"

----------------------------------------------------------------------------
\* The calls of on_error that raised.
RaisingHooks == {h \in HookCalls : calls[h].res # "ok"}
SecondaryError(h) == Error(calls[h].res, calls[h].job, "on_error")

\* C14, the secondary error: an error raised by on_error is printed, is
\* never the error that leaves main(), and under --recover the loop goes on
\* to the end of the list.
C14_HookErrorSwallowed ==
    \A h \in RaisingHooks :
        /\ \E l \in 1..Len(out) :
              out[l].kind = "Error running on_error" /\ out[l].err = SecondaryError(h)
        /\ raised # SecondaryError(h)
        /\ recover => main_exit # "raised"
        /\ (recover /\ BatchEnded) => ResolvedOrder = config_file_list

\* C14: when on_error raised while a failure was handled, the error is
\* swallowed and reported as above, every failure so far, that one included,
\* has been counted failed exactly once and every completed job completed
\* exactly once.
C14_HookErrorKeepsCounts ==
    /\ C14_HookErrorSwallowed
    /\ (RaisingHooks # {} /\ pc \notin HandlerEntry) =>
          /\ jobs_failed = Cardinality(FailingCalls)
          /\ jobs_completed = Cardinality(CompletedJobs)

----------------------------------------------------------------------------
\* The verifications of the dataset bucket that obtained a listing.
Listed == {k \in 1..Len(calls) :
             /\ calls[k].op = "verify_datasets"
             /\ ~(calls[k].res = "Exception" /\ calls[k].listing = {})}
\* The immediate child folders of the bucket, by name.
ChildFolders(listing) ==
    {SubSeq(f, 1, Len(f) - 1) : f \in {x \in listing : x # None}}

\* C15: the verification succeeds exactly when PROJECT is one of the
\* immediate child folders of the bucket; when it is not, the process exits
\* with status 1 after printing an error that names the bucket, the missing
\* folder and all the folders found.
C15_VerifyDatasetsExact ==
    \A k \in Listed :
        /\ (calls[k].res = "ok") <=> (PROJECT \in ChildFolders(calls[k].listing))
        /\ PROJECT \notin ChildFolders(calls[k].listing) =>
              /\ exit = "exit1"
              /\ \E l \in 1..Len(out) :
                    /\ out[l].bucket = "hlam-ai-datasets"
                    /\ out[l].folder = PROJECT
                    /\ out[l].found = ChildFolders(calls[k].listing)
                    /\ out[l].kind = "ERROR: Project folder not found"

----------------------------------------------------------------------------
Provisioned == pc # "provision"
Declined == \E l \in 1..Len(out) : out[l].kind = "Aborting: directories not created"
Created == \E l \in 1..Len(out) : out[l].kind = "Directories created successfully"
\* A second provisioning of the directories as they are now changes nothing,
\* prints nothing and does not exit, whatever would be typed.
SecondRunIsNoOp ==
    \A input \in Responses :
        provision(dirs, input) = [res |-> "ok", dirs |-> dirs, lines |-> <<>>]

\* C16 as claimed: once provisioning has run, all three directories exist,
\* and running it again changes nothing and raises nothing.
C16_ProvisionAlwaysCreates ==
    Provisioned => (dirs = WorkspaceDirs /\ SecondRunIsNoOp)

\* C16 as amended: once provisioning has run, either the operator declined
\* and the process has exited with status 1 with a directory still missing,
\* or all three directories exist and running it again changes nothing,
\* creates nothing, asks nothing and raises nothing.
C16_ProvisionIdempotent ==
    Provisioned =>
        IF Declined
        THEN exit = "exit1" /\ dirs # WorkspaceDirs /\ ~Created
        ELSE dirs = WorkspaceDirs /\ SecondRunIsNoOp

C16_Witness ==
    /\ Provisioned
    /\ Created
    /\ dirs = WorkspaceDirs
    /\ SecondRunIsNoOp

----------------------------------------------------------------------------
\* print_end_message on its own, for every pair of counts up to MaxCount.

\* Largest count handed to print_end_message.
MaxCount == 6

InitReport ==
    /\ pc = "report"
    /\ jobs_completed \in 0..MaxCount
    /\ jobs_failed \in 0..MaxCount
    /\ is_main_process \in BOOLEAN
    /\ dirs = WorkspaceDirs
    /\ PROJECT = <<>>
    /\ recover = FALSE
    /\ config_file_list = <<1>>
    /\ idx = 0
    /\ job = 0
    /\ e = NoError
    /\ raised = NoError
    /\ calls = <<>>
    /\ out = <<>>
    /\ main_exit = "none"
    /\ exit = "running"

\* One call print_end_message(jobs_completed, jobs_failed).
ReportStep ==
    /\ pc = "report"
    /\ out' = out \o print_end_message(jobs_completed, jobs_failed)
    /\ pc' = "reported"
    /\ UNCHANGED <<idx, job, jobs_completed, jobs_failed, e, raised, calls,
                   main_exit, exit>>
    /\ UNCHANGED loop_vars

NextReport == ReportStep

SpecReport == InitReport /\ [][NextReport]_vars

CompletedLines == SelectSeq(out, IsCompletedLine)
FailureLines == SelectSeq(out, IsFailureLine)

\* C17: off the primary process print_end_message prints nothing; on it, it
\* prints one completed line, with the count and a noun that is singular
\* exactly when completed = 1, and a failure line exactly when failed > 0,
\* with the count and a noun that is singular exactly when failed = 1.
C17_EndMessage ==
    pc = "reported" =>
        IF ~is_main_process
        THEN out = <<>>
        ELSE /\ Cardinality(Summaries) = 1
             /\ Len(CompletedLines) = 1
             /\ CompletedLines[1].n = jobs_completed
             /\ (CompletedLines[1].noun = "completed job") <=> (jobs_completed = 1)
             /\ CompletedLines[1].noun \in {"completed job", "completed jobs"}
             /\ (Len(FailureLines) > 0) <=> (jobs_failed > 0)
             /\ Len(FailureLines) <= 1
             /\ \A k \in 1..Len(FailureLines) :
                   /\ FailureLines[k].n = jobs_failed
                   /\ (FailureLines[k].noun = "failure") <=> (jobs_failed = 1)
                   /\ FailureLines[k].noun \in {"failure", "failures"}

C17_Witness ==
    /\ pc = "reported"
    /\ is_main_process
    /\ jobs_completed = 1
    /\ jobs_failed > 1
    /\ Len(FailureLines) = 1

----------------------------------------------------------------------------
CleanupCalls == {k \in 1..Len(calls) : calls[k].op = "cleanup"}
FailingCleanups == {k \in CleanupCalls : calls[k].res # "ok"}

\* C18, the order: cleanup() of a job is called right after run() of that
\* job returned, and the completed count is the number of jobs whose run()
\* and cleanup() both returned.
C18_CleanupAfterRun ==
    /\ \A k \in CleanupCalls :
          /\ k > 1
          /\ calls[k - 1].op = "run"
          /\ calls[k - 1].job = calls[k].job
          /\ calls[k - 1].res = "ok"
    /\ jobs_completed = Cardinality(CompletedJobs)
    /\ CompletedJobs \cap FailingJobs = {}

\* C18: the order above, and a job whose cleanup() raised is counted failed:
\* when the only failures so far are failures of cleanup(), the failed count
\* is their number.
C18_CleanupFailureCounted ==
    /\ C18_CleanupAfterRun
    /\ (pc \notin HandlerEntry /\ FailingCalls = FailingCleanups) =>
          jobs_failed = Cardinality(FailingCleanups)

----------------------------------------------------------------------------
AttemptedJobs == {calls[k].job : k \in {i \in 1..Len(calls) : calls[i].op = "get_job"}}

CountersWithinAttempts ==
    /\ jobs_completed + jobs_failed <= Cardinality(AttemptedJobs)
    /\ Cardinality(AttemptedJobs) <= NumJobs
    /\ jobs_completed = Cardinality(CompletedJobs)
    /\ jobs_failed <= Cardinality(FailingJobs)
    /\ CompletedJobs \cap FailingJobs = {}

CountersStepByOne ==
    /\ jobs_completed' \in {jobs_completed, jobs_completed + 1}
    /\ jobs_failed' \in {jobs_failed, jobs_failed + 1}
    /\ ~(jobs_completed' # jobs_completed /\ jobs_failed' # jobs_failed)

\* C19: in every state completed + failed is at most the number of jobs
\* attempted so far, which is at most the number of config files; no job is
\* counted in both; and every step leaves each counter as it is or adds one
\* to one of them.
C19_CountersBounded ==
    []CountersWithinAttempts /\ [][CountersStepByOne]_vars

C19_Witness ==
    /\ BatchEnded
    /\ jobs_completed >= 1
    /\ jobs_failed >= 1
    /\ jobs_completed + jobs_failed < NumJobs

----------------------------------------------------------------------------
SomeDirMissing == dirs # WorkspaceDirs
\* The process is past provisioning and has not exited from it.
PastProvisioning == pc \notin {"provision", "exited"} \/ calls # <<>>

\* In every state: past provisioning all three directories exist; a process
\* that declined has exited with status 1 without any call to the storage
\* or to a job; and at the prompt every reply that is not yes or y once
\* stripped and lower-cased leads to that exit with the directories as they
\* were.
NoWorkWithoutWorkspace ==
    /\ PastProvisioning => ~SomeDirMissing
    /\ Declined => (exit = "exit1" /\ pc = "exited" /\ calls = <<>> /\ SomeDirMissing)
    /\ (pc = "provision" /\ SomeDirMissing) =>
          \A input \in Responses :
              lower(strip(input)) \notin { <<"y", "e", "s">>, <<"y">> } =>
                  /\ provision(dirs, input).res = "exit1"
                  /\ provision(dirs, input).dirs = dirs

\* A step that exits from provisioning creates no directory and makes no
\* call, and every step that makes a call starts with all three directories.
NoWorkWithoutWorkspaceStep ==
    /\ (pc = "provision" /\ exit' = "exit1") => (dirs' = dirs /\ calls' = calls)
    /\ calls' # calls => ~SomeDirMissing

\* C20: no authorization, verification, reconciliation or job step runs
\* while a workspace directory is missing; when one is missing and the
\* operator's reply is not yes or y, the process exits with status 1 having
\* created no directory and contacted no remote storage.
C20_NoWorkWithoutWorkspace ==
    []NoWorkWithoutWorkspace /\ [][NoWorkWithoutWorkspaceStep]_vars

C20_Witness ==
    /\ Declined
    /\ exit = "exit1"
    /\ calls = <<>>
    /\ dirs = {}

====
